---- MODULE Spec2Model ----
(***************************************************************************)
(* The adaptive performance-level controller of XROptimizationManager      *)
(* (src/js/integration_manager.js): the current level, the deferred        *)
(* callbacks scheduled with setTimeout by handleGoodPerformance and        *)
(* boostPerformanceTemporarily, device classification and the start of     *)
(* init().                                                                 *)
(*                                                                         *)
(* JavaScript runs every handler to completion, so each handler is one     *)
(* action; init() is split at its awaits.  A pending setTimeout callback   *)
(* is an element of timers, and its firing is an action of its own.        *)
(***************************************************************************)
EXTENDS Integers, Sequences, FiniteSets, TLC

\* ------------------------------------------------------------------ bounds
\* Pending setTimeout callbacks kept at once.
MaxTimers == 2
\* init() invocations suspended at an await at once.
MaxInits == 2
\* Components that implement setQualityLevel, of the seven of this.components.
MaxCollaborators == 2
\* Callbacks registered with on() for one event at once.
MaxListeners == 2
\* navigator.hardwareConcurrency; 0 stands for a missing (falsy) value.
MaxCores == 8
\* start() invocations suspended at their await at once.
MaxStarts == 2
\* stop() invocations suspended at their await at once.
MaxStops == 1

\* ------------------------------------------------------- program constants
\* handleGoodPerformance: "Wait 5 seconds before upgrading".
UpgradeDelay == 5000
\* boostPerformanceTemporarily(duration = 5000).
DefaultBoostDuration == 5000

Levels == {"high", "medium", "low"}
\* A value that is none of the three levels.
InvalidLevel == "ultra"
\* options.performanceTarget: 'auto', a level, or anything else a caller passes.
Targets == {"auto"} \cup Levels \cup {InvalidLevel}
\* The durations passed to boostPerformanceTemporarily: the default and a
\* shorter one.
Durations == {DefaultBoostDuration, 1000}

\* What the capability probe reads: whether a WebGL context is available,
\* deviceMemory, hardwareConcurrency, and whether the renderer string names
\* GeForce, Radeon or Intel Iris.
\* navigator.deviceMemory reports one of 0.25, 0.5, 1, 2, 4, 8 (GB); 1 stands
\* for the values up to 1 and 0 for a missing (falsy) value.
MemoryValues == {0, 1, 2, 4, 8}
AllDevices == [gl : BOOLEAN, memory : MemoryValues, cores : 0..MaxCores, gpu : BOOLEAN]
\* The configurations of the controller specification Spec: a device with no
\* graphics context and one with both values missing, under the target
\* 'auto' and a fixed one.  SpecSetup ranges over all of them.
SampleDevices ==
    { [gl |-> FALSE, memory |-> 8, cores |-> 8, gpu |-> TRUE],
      [gl |-> TRUE, memory |-> 0, cores |-> 0, gpu |-> TRUE] }
SampleTargets == {"auto", "low"}

VARIABLES
    performanceTarget,        \* this.options.performanceTarget
    device,                   \* what the capability probe reads
    currentPerformanceLevel,  \* this.currentPerformanceLevel
    isInitialized,            \* this.isInitialized
    initsAwaiting,            \* init() invocations suspended at an await
    collaborators,            \* history: components init() gives setQualityLevel
    components,               \* components implementing setQualityLevel
    timers,                   \* pending setTimeout callbacks, oldest first
    last,                     \* history: the handler that ran last
    profile,                  \* history: what the probe read at construction
    devicePixelRatio,         \* window.devicePixelRatio, in hundredths
    sceneRenderer,            \* whether a-scene and its renderer exist
    listeners,                \* this.listeners.get('performanceLevelChanged')
    sceneListeners,           \* 'performance-low' listeners on the scene: 0, 1,
                              \* or 2 for two or more
    isStarted,                \* this.isStarted
    startsAwaiting,           \* start() invocations suspended at their await
    stopsAwaiting,            \* stop() invocations suspended at their await
    componentStarts,          \* history: start() calls each component got since
                              \* the last stop: 0, 1, or 2 for two or more
    startedEvents,            \* history: 'started' events since the last stop:
                              \* 0, 1, or 2 for two or more
    isDestroyed               \* history: destroy() has been called

\* What no handler of the manager changes.
environment == <<performanceTarget, profile, devicePixelRatio, sceneRenderer,
                 collaborators>>

\* What start(), stop() and destroy() change.
lifecycle == <<isStarted, startsAwaiting, stopsAwaiting, componentStarts,
               startedEvents, isDestroyed>>

vars == <<environment, lifecycle, device, currentPerformanceLevel, isInitialized,
          initsAwaiting, components, timers, last, listeners, sceneListeners>>

\* ----------------------------------------------------------------- helpers
NoTimer == [kind |-> "none", delay |-> 0, originalLevel |-> "none", disturbed |-> FALSE]

RemoveAt(s, i) == SubSeq(s, 1, i - 1) \o SubSeq(s, i + 1, Len(s))

\* History kept on the pending callbacks: an upgrade callback is disturbed
\* by a handleLowPerformance call, a reversion callback by a change of the
\* level, since it was scheduled.
Disturb(ts, lowReport, changed) ==
    [i \in 1..Len(ts) |->
        IF \/ ts[i].kind = "upgrade" /\ lowReport
           \/ ts[i].kind = "revert" /\ changed
        THEN [ts[i] EXCEPT !.disturbed = TRUE]
        ELSE ts[i]]

\* setTimeout callbacks run in the order of their due times, and in the
\* order of scheduling when these are equal: a callback scheduled earlier
\* with a delay no longer than that of callback i runs before it.
CanFire(i) == \A j \in 1..(i - 1) : timers[j].delay > timers[i].delay

\* ------------------------------------------------------ setPerformanceLevel
IsValidLevelNoCheck(level) == TRUE

IsValidLevel(level) == level \in Levels

\* ---------------------------------------------------------------- emit
\* The callbacks a caller may register with on().
Callbacks == {"f", "g"}

RECURSIVE dispatchNoCatch(_, _, _)
dispatchNoCatch(ls, th, i) ==
    IF i > Len(ls) THEN <<>>
    ELSE IF ls[i] \in th THEN <<ls[i]>>
    ELSE <<ls[i]>> \o dispatchNoCatch(ls, th, i + 1)

\* forEach over the callbacks from the i-th on: each is called inside
\* try/catch, so one in th (those that throw) does not end the loop.  The
\* result is the callbacks called, in the order of the calls.
RECURSIVE dispatch(_, _, _)
dispatch(ls, th, i) ==
    IF i > Len(ls) THEN <<>>
    ELSE <<ls[i]>> \o dispatch(ls, th, i + 1)

emitNoCatch(ls, th) == dispatchNoCatch(ls, th, 1)

\* emit(event, data) with the callbacks ls registered for the event.
emit(ls, th) == dispatch(ls, th, 1)

\* The callbacks of ls that threw during a dispatch.
Caught(ls, th) == {ls[i] : i \in {j \in 1..Len(ls) : ls[j] \in th}}

\* --------------------------------------------- applyGlobalPerformanceSettings
Min(a, b) == IF a <= b THEN a ELSE b

\* The renderer was not touched.
NoSettings == [called |-> FALSE, shadowMap |-> FALSE, pixelRatio |-> 0]

\* What applyGlobalPerformanceSettings(level) sets on the renderer, the pixel
\* ratio in hundredths.
applyGlobalPerformanceSettings(level) ==
    IF ~sceneRenderer THEN NoSettings
    ELSE IF level = "low"
    THEN [called |-> TRUE, shadowMap |-> FALSE, pixelRatio |-> 100]
    ELSE [called |-> TRUE, shadowMap |-> TRUE,
          pixelRatio |-> Min(devicePixelRatio, IF level = "high" THEN 200 ELSE 150)]

\* No call of setPerformanceLevel was made.
NoCall(cur) ==
    [level |-> cur, notified |-> 0, applied |-> FALSE, settings |-> NoSettings,
     emitted |-> FALSE, delivered |-> <<>>, caught |-> {}, threw |-> FALSE,
     quality |-> <<>>, heard |-> <<>>]

\* setPerformanceLevel(level) with n collaborators, of which number throwAt
\* throws from setQualityLevel (0: none does), and with th the listeners of
\* performanceLevelChanged that throw.  The level is assigned first; an
\* exception from a collaborator leaves the loop and the function, so the
\* later collaborators, applyGlobalPerformanceSettings and the
\* performanceLevelChanged event are skipped.
setPerformanceLevel(cur, level, n, throwAt, th) ==
    IF ~IsValidLevel(level)
    THEN NoCall(cur)
    ELSE [level     |-> level,
          notified  |-> IF throwAt = 0 THEN n ELSE throwAt,
          applied   |-> throwAt = 0,
          settings  |-> IF throwAt = 0 THEN applyGlobalPerformanceSettings(level)
                        ELSE NoSettings,
          emitted   |-> throwAt = 0,
          delivered |-> IF throwAt = 0 THEN emit(listeners, th) ELSE <<>>,
          caught    |-> IF throwAt = 0 THEN Caught(listeners, th) ELSE {},
          threw     |-> throwAt # 0,
          quality   |-> [i \in 1..(IF throwAt = 0 THEN n ELSE throwAt) |-> level],
          heard     |-> IF throwAt = 0 THEN [j \in 1..Len(listeners) |-> level]
                        ELSE <<>>]

\* The listeners that may throw in one dispatch.
Throwers == SUBSET {listeners[i] : i \in 1..Len(listeners)}

Record(op, arg, eff, timer) ==
    [op |-> op, arg |-> arg, before |-> currentPerformanceLevel,
     notified |-> eff.notified, applied |-> eff.applied, settings |-> eff.settings,
     emitted |-> eff.emitted, delivered |-> eff.delivered, caught |-> eff.caught,
     threw |-> eff.threw, timer |-> timer,
     quality |-> eff.quality, heard |-> eff.heard, registered |-> listeners]

\* ------------------------------------------------------------------- Init
\* The state the constructor leaves (without the auto-init it may start).
Constructed ==
    /\ currentPerformanceLevel = "high"
    /\ isInitialized = FALSE
    /\ initsAwaiting = 0
    /\ components = 0
    /\ timers = <<>>
    /\ last = [op |-> "new", arg |-> "none", before |-> "high", notified |-> 0,
               applied |-> FALSE, settings |-> NoSettings, emitted |-> FALSE,
               delivered |-> <<>>, caught |-> {}, threw |-> FALSE, timer |-> NoTimer,
               quality |-> <<>>, heard |-> <<>>, registered |-> <<>>]
    /\ profile = device
    /\ listeners = <<>>
    /\ sceneListeners = 0
    /\ isStarted = FALSE
    /\ startsAwaiting = 0
    /\ stopsAwaiting = 0
    /\ componentStarts = 0
    /\ startedEvents = 0
    /\ isDestroyed = FALSE

Init ==
    /\ performanceTarget \in SampleTargets
    /\ device \in SampleDevices
    /\ devicePixelRatio = 200
    /\ sceneRenderer = TRUE
    /\ collaborators = 1
    /\ Constructed

\* ------------------------------------------- detectOptimalPerformanceLevel
\* navigator.deviceMemory || 4 and navigator.hardwareConcurrency || 4.
memoryOf(d) == IF d.memory = 0 THEN 4 ELSE d.memory

coresOf(d) == IF d.cores = 0 THEN 4 ELSE d.cores

performanceScore(d) ==
    (IF memoryOf(d) >= 8 THEN 3 ELSE IF memoryOf(d) >= 4 THEN 2 ELSE 1)
    + (IF coresOf(d) >= 8 THEN 3 ELSE IF coresOf(d) >= 4 THEN 2 ELSE 1)
    + (IF d.gpu THEN 2 ELSE 1)

levelForScoreStrict(score) ==
    IF score > 7 THEN "high" ELSE IF score <= 4 THEN "low" ELSE "medium"

levelForScore(score) ==
    IF score >= 7 THEN "high" ELSE IF score <= 4 THEN "low" ELSE "medium"

detectOptimalPerformanceLevelNoContextTest(d) == levelForScore(performanceScore(d))

\* The level detectOptimalPerformanceLevel passes to setPerformanceLevel.
detectOptimalPerformanceLevel(d) ==
    IF ~d.gl THEN "low" ELSE levelForScore(performanceScore(d))

setupPerformanceAdaptationAlwaysDetect(target, d) == detectOptimalPerformanceLevel(d)

\* The level setupPerformanceAdaptation passes to setPerformanceLevel.
setupPerformanceAdaptation(target, d) ==
    IF target = "auto" THEN detectOptimalPerformanceLevel(d) ELSE target

\* ------------------------------------------------------------ level steps
lowerLevelToLow(cur) == "low"

\* handleLowPerformance: the level one tier below a level that is not low.
lowerLevel(cur) == IF cur = "high" THEN "medium" ELSE "low"

higherLevelToHigh(cur) == "high"

\* handleGoodPerformance's callback: the level one tier above a level that
\* is not high.
higherLevel(cur) == IF cur = "low" THEN "medium" ELSE "high"

\* ---------------------------------------------------------------- actions
\* The public call setPerformanceLevel(level).
SetLevel ==
    \E level \in Levels \cup {InvalidLevel}, k \in 0..components, th \in Throwers :
        LET eff == setPerformanceLevel(currentPerformanceLevel, level, components, k, th) IN
        /\ currentPerformanceLevel' = eff.level
        /\ timers' = Disturb(timers, FALSE, eff.level # currentPerformanceLevel)
        /\ last' = Record("setLevel", level, eff, NoTimer)
        /\ UNCHANGED <<environment, lifecycle, device, listeners, sceneListeners, isInitialized, initsAwaiting, components>>

\* handleLowPerformance(stats).
HandleLowPerformance ==
    \E k \in 0..components, th \in Throwers :
        LET cur == currentPerformanceLevel
            eff == IF cur # "low"
                   THEN setPerformanceLevel(cur, lowerLevel(cur), components, k, th)
                   ELSE NoCall(cur)
        IN
        /\ currentPerformanceLevel' = eff.level
        /\ timers' = Disturb(timers, TRUE, eff.level # cur)
        /\ last' = Record("low", "none", eff, NoTimer)
        /\ UNCHANGED <<environment, lifecycle, device, listeners, sceneListeners, isInitialized, initsAwaiting, components>>

\* handleGoodPerformance(stats): schedules the upgrade callback.
HandleGoodPerformance ==
    LET t == [kind |-> "upgrade", delay |-> UpgradeDelay,
              originalLevel |-> "none", disturbed |-> FALSE]
    IN
    /\ Len(timers) < MaxTimers
    /\ timers' = Append(timers, t)
    /\ last' = Record("good", "none", NoCall(currentPerformanceLevel), t)
    /\ UNCHANGED <<environment, lifecycle, device, listeners, sceneListeners, currentPerformanceLevel, isInitialized,
                   initsAwaiting, components>>

\* The callback handleGoodPerformance scheduled runs.
FireUpgrade ==
    \E i \in 1..Len(timers), k \in 0..components, th \in Throwers :
        LET cur == currentPerformanceLevel
            eff == IF cur # "high"
                   THEN setPerformanceLevel(cur, higherLevel(cur), components, k, th)
                   ELSE NoCall(cur)
        IN
        /\ timers[i].kind = "upgrade"
        /\ CanFire(i)
        /\ currentPerformanceLevel' = eff.level
        /\ timers' = Disturb(RemoveAt(timers, i), FALSE, eff.level # cur)
        /\ last' = Record("upgrade", "none", eff, timers[i])
        /\ UNCHANGED <<environment, lifecycle, device, listeners, sceneListeners, isInitialized, initsAwaiting, components>>

\* boostPerformanceTemporarily(duration), called as op.  An exception from
\* setPerformanceLevel('high') leaves the function before setTimeout.
boostPerformanceTemporarily(op, duration) ==
    \E k \in 0..components, th \in Throwers :
        LET originalLevel == currentPerformanceLevel
            eff == IF originalLevel # "high"
                   THEN setPerformanceLevel(originalLevel, "high", components, k, th)
                   ELSE NoCall(originalLevel)
            t == [kind |-> "revert", delay |-> duration,
                  originalLevel |-> originalLevel, disturbed |-> FALSE]
            scheduled == originalLevel # "high" /\ ~eff.threw
            kept == Disturb(timers, FALSE, eff.level # originalLevel)
        IN
        /\ originalLevel # "high" => Len(timers) < MaxTimers
        /\ currentPerformanceLevel' = eff.level
        /\ timers' = IF scheduled THEN Append(kept, t) ELSE kept
        /\ last' = Record(op, "none", eff, IF scheduled THEN t ELSE NoTimer)
        /\ UNCHANGED <<environment, lifecycle, device, listeners, sceneListeners, isInitialized, initsAwaiting, components>>

\* The public call boostPerformanceTemporarily(duration).
Boost == \E duration \in Durations : boostPerformanceTemporarily("boost", duration)

\* handleVoiceActivityStart(): boostPerformanceTemporarily() with the default.
HandleVoiceActivityStart == boostPerformanceTemporarily("voice", DefaultBoostDuration)

\* The callback boostPerformanceTemporarily scheduled runs.
FireRevert ==
    \E i \in 1..Len(timers), k \in 0..components, th \in Throwers :
        LET cur == currentPerformanceLevel
            eff == setPerformanceLevel(cur, timers[i].originalLevel, components, k, th)
        IN
        /\ timers[i].kind = "revert"
        /\ CanFire(i)
        /\ currentPerformanceLevel' = eff.level
        /\ timers' = Disturb(RemoveAt(timers, i), FALSE, eff.level # cur)
        /\ last' = Record("revert", "none", eff, timers[i])
        /\ UNCHANGED <<environment, lifecycle, device, listeners, sceneListeners, isInitialized, initsAwaiting, components>>

\* A handler whose effect on the controller is one setPerformanceLevel(level).
SetTo(op, level) ==
    \E k \in 0..components, th \in Throwers :
        LET cur == currentPerformanceLevel
            eff == setPerformanceLevel(cur, level, components, k, th)
        IN
        /\ currentPerformanceLevel' = eff.level
        /\ timers' = Disturb(timers, FALSE, eff.level # cur)
        /\ last' = Record(op, "none", eff, NoTimer)
        /\ UNCHANGED <<environment, lifecycle, device, listeners, sceneListeners, isInitialized, initsAwaiting, components>>

\* handleVREnter().
HandleVREnter == SetTo("vrEnter", "high")

\* handleVRExit().
HandleVRExit == SetTo("vrExit", detectOptimalPerformanceLevel(device))

recoverFromErrorToLow(cur) == "low"

\* recoverFromError(error): the level it leaves, medium in place of high.
recoverFromError(cur) == IF cur = "high" THEN "medium" ELSE cur

\* handleGlobalError(event), through recoverFromError: the level is reduced
\* to medium when it is high.
HandleGlobalError ==
    \E k \in 0..components, th \in Throwers :
        LET cur == currentPerformanceLevel
            eff == IF recoverFromError(cur) # cur
                   THEN setPerformanceLevel(cur, recoverFromError(cur), components, k, th)
                   ELSE NoCall(cur)
        IN
        /\ currentPerformanceLevel' = eff.level
        /\ timers' = Disturb(timers, FALSE, eff.level # cur)
        /\ last' = Record("error", "none", eff, NoTimer)
        /\ UNCHANGED <<environment, lifecycle, device, listeners, sceneListeners, isInitialized, initsAwaiting, components>>

\* A handler that has no call of setPerformanceLevel: it forwards an event or
\* updates the metrics.
Forward(op) ==
    /\ last' = Record(op, "none", NoCall(currentPerformanceLevel), NoTimer)
    /\ UNCHANGED <<environment, lifecycle, device, listeners, sceneListeners,
                   currentPerformanceLevel, isInitialized, initsAwaiting,
                   components, timers>>

\* handleVoiceActivityEnd().
HandleVoiceActivityEnd == Forward("voiceEnd")

\* handleVoiceError(error).
HandleVoiceError == Forward("voiceError")

\* handleWindowFocus().
HandleWindowFocus == Forward("focus")

\* handleWindowBlur().
HandleWindowBlur == Forward("blur")

\* The chat manager's messageAdded and streamingComplete.
HandleChatEvent == Forward("chat")

\* The API client's requestStart and requestComplete.
HandleAPIEvent == Forward("api")

\* init() up to its last await, whether the constructor, a caller or start()
\* called it: the isInitialized guard, the components, and the listeners of
\* 'performance-low' and 'performance-good' that
\* initializePerformanceMonitoring adds to the scene.
init ==
    /\ ~isInitialized
    /\ initsAwaiting' = initsAwaiting + 1
    /\ components' = collaborators
    /\ sceneListeners' = Min(sceneListeners + 1, 2)
    /\ last' = Record("initStart", "none", NoCall(currentPerformanceLevel), NoTimer)
    /\ UNCHANGED <<environment, lifecycle, device, listeners, currentPerformanceLevel, isInitialized, timers>>

\* init() called while no other invocation of it is suspended.
InitStart ==
    /\ initsAwaiting = 0
    /\ init

\* init() called while an earlier invocation is suspended at an await: the
\* constructor's auto-init is, and start() or a caller calls init() again.
InitReentered ==
    /\ initsAwaiting > 0
    /\ initsAwaiting < MaxInits
    /\ init

\* init() after its last await: setupPerformanceAdaptation, then
\* isInitialized = true; an exception skips the assignment.
InitFinish ==
    \E k \in 0..components, th \in Throwers :
        LET cur == currentPerformanceLevel
            level == setupPerformanceAdaptation(performanceTarget, device)
            eff == setPerformanceLevel(cur, level, components, k, th)
        IN
        /\ initsAwaiting > 0
        /\ initsAwaiting' = initsAwaiting - 1
        /\ currentPerformanceLevel' = eff.level
        /\ isInitialized' = (isInitialized \/ ~eff.threw)
        /\ timers' = Disturb(timers, FALSE, eff.level # cur)
        /\ last' = Record(IF eff.threw THEN "initError" ELSE "init", level, eff, NoTimer)
        /\ UNCHANGED <<environment, lifecycle, device, listeners, sceneListeners, components>>

\* init() rejected at one of its awaits.
InitAbort ==
    /\ initsAwaiting > 0
    /\ initsAwaiting' = initsAwaiting - 1
    /\ last' = Record("initError", "none", NoCall(currentPerformanceLevel), NoTimer)
    /\ UNCHANGED <<environment, lifecycle, device, listeners, sceneListeners, currentPerformanceLevel, isInitialized,
                   components, timers>>

Next ==
    \/ InitStart
    \/ InitFinish
    \/ InitAbort
    \/ SetLevel
    \/ HandleLowPerformance
    \/ HandleGoodPerformance
    \/ FireUpgrade
    \/ Boost
    \/ HandleVoiceActivityStart
    \/ FireRevert
    \/ HandleVREnter
    \/ HandleVRExit
    \/ HandleGlobalError
    \/ HandleVoiceActivityEnd
    \/ HandleVoiceError
    \/ HandleWindowFocus
    \/ HandleWindowBlur
    \/ HandleChatEvent
    \/ HandleAPIEvent

Spec == Init /\ [][Next]_vars

\* The page between two handlers: a WebGL context that was to be had is not
\* any more (the browser's limit of contexts, a lost GPU), or is again.  The
\* code reads it anew in every detectOptimalPerformanceLevel(); the profile
\* of the construction is history.
ProbeChange ==
    /\ device' = [device EXCEPT !.gl = ~device.gl]
    /\ last' = Record("probe", "none", NoCall(currentPerformanceLevel), NoTimer)
    /\ UNCHANGED <<environment, lifecycle, listeners, sceneListeners, currentPerformanceLevel,
                   isInitialized, initsAwaiting, components, timers>>

\* The set-up of the controller over every target and device: init(), the
\* handlers that classify the device, and handleLowPerformance, which may
\* run before init() has finished.
InitSetup ==
    /\ performanceTarget \in Targets
    /\ device \in AllDevices
    /\ devicePixelRatio = 200
    /\ sceneRenderer = TRUE
    /\ collaborators = 1
    /\ Constructed

NextSetup ==
    \/ InitStart
    \/ InitFinish
    \/ InitAbort
    \/ HandleLowPerformance
    \/ HandleVRExit
    \/ ProbeChange

SpecSetup == InitSetup /\ [][NextSetup]_vars

\* -------------------------------------------------------------- listeners
\* on('performanceLevelChanged', callback): the callback is pushed, also
\* when it is registered already.
On ==
    \E c \in Callbacks :
        /\ Len(listeners) < MaxListeners
        /\ listeners' = Append(listeners, c)
        /\ last' = Record("on", "none", NoCall(currentPerformanceLevel), NoTimer)
        /\ UNCHANGED <<environment, lifecycle, device, sceneListeners, currentPerformanceLevel,
                       isInitialized, initsAwaiting, components, timers>>

\* indexOf: the first place of c in ls, 0 when it has none.
IndexOf(ls, c) ==
    IF \E i \in 1..Len(ls) : ls[i] = c
    THEN CHOOSE i \in 1..Len(ls) : ls[i] = c /\ \A j \in 1..(i - 1) : ls[j] # c
    ELSE 0

\* off(event, callback) on the callbacks ls of the event: the first
\* registration of the callback is spliced out.
off(ls, c) ==
    IF IndexOf(ls, c) # 0 THEN RemoveAt(ls, IndexOf(ls, c)) ELSE ls

\* off('performanceLevelChanged', callback), outside a dispatch.
Off ==
    \E c \in Callbacks :
        /\ listeners' = off(listeners, c)
        /\ last' = Record("off", c, NoCall(currentPerformanceLevel), NoTimer)
        /\ UNCHANGED <<environment, lifecycle, device, sceneListeners, currentPerformanceLevel,
                       isInitialized, initsAwaiting, components, timers>>

\* The public call emit('performanceLevelChanged', data) with callbacks that
\* leave the registrations alone.
Emit ==
    \E th \in Throwers :
        LET eff == [NoCall(currentPerformanceLevel) EXCEPT
                        !.emitted = TRUE,
                        !.delivered = emit(listeners, th),
                        !.caught = Caught(listeners, th)]
        IN
        /\ last' = Record("emit", "none", eff, NoTimer)
        /\ UNCHANGED <<environment, lifecycle, device, listeners, sceneListeners,
                       currentPerformanceLevel, isInitialized, initsAwaiting,
                       components, timers>>

\* What a callback does with the registrations when it is called: the
\* callback it passes to off(), or "none".
Removals == [Callbacks -> Callbacks \cup {"none"}]

\* forEach over an array that the callbacks splice: the index goes on by one
\* after each call whatever the array has become, and stops at its end.  The
\* result is the callbacks called, in order, and the array that is left.
RECURSIVE dispatchWithOff(_, _, _)
dispatchWithOff(ls, removes, i) ==
    IF i > Len(ls) THEN [called |-> <<>>, left |-> ls]
    ELSE LET callback == ls[i]
             spliced == IF removes[callback] = "none" THEN ls
                        ELSE off(ls, removes[callback])
             rest == dispatchWithOff(spliced, removes, i + 1)
         IN [called |-> <<callback>> \o rest.called, left |-> rest.left]

\* emit('performanceLevelChanged', data) with callbacks that may call off().
EmitWithOff ==
    \E removes \in Removals :
        LET done == dispatchWithOff(listeners, removes, 1)
            eff == [NoCall(currentPerformanceLevel) EXCEPT
                        !.emitted = TRUE,
                        !.delivered = done.called]
        IN
        /\ listeners' = done.left
        /\ last' = Record("emitWithOff", "none", eff, NoTimer)
        /\ UNCHANGED <<environment, lifecycle, device, sceneListeners,
                       currentPerformanceLevel, isInitialized, initsAwaiting,
                       components, timers>>

\* Registrations, removals and dispatches of performanceLevelChanged.
InitDispatch ==
    /\ performanceTarget = "auto"
    /\ device \in SampleDevices
    /\ devicePixelRatio = 200
    /\ sceneRenderer = TRUE
    /\ collaborators = 1
    /\ Constructed

NextDispatch ==
    \/ On
    \/ Off
    \/ Emit
    \/ EmitWithOff

SpecDispatch == InitDispatch /\ [][NextDispatch]_vars

\* The notifications of a level change, over every number of collaborators
\* and with listeners of performanceLevelChanged.
InitNotify ==
    /\ performanceTarget = "auto"
    /\ device \in SampleDevices
    /\ devicePixelRatio = 200
    /\ sceneRenderer = TRUE
    /\ collaborators \in 0..MaxCollaborators
    /\ Constructed

NextNotify ==
    \/ InitStart
    \/ InitFinish
    \/ SetLevel
    \/ HandleLowPerformance
    \/ HandleVREnter
    \/ On
    \/ Off
    \/ Emit

SpecNotify == InitNotify /\ [][NextNotify]_vars

\* ---------------------------------------------------------------- renderer
\* window.devicePixelRatio in hundredths: below 1, between 1 and 1.5, between
\* 1.5 and 2, and above 2.
PixelRatios == {50, 75, 100, 125, 150, 175, 200, 300}

\* The settings of the renderer over every device pixel ratio, with and
\* without a scene that has a renderer.
InitRender ==
    /\ performanceTarget = "auto"
    /\ device \in SampleDevices
    /\ devicePixelRatio \in PixelRatios
    /\ sceneRenderer \in BOOLEAN
    /\ collaborators = 1
    /\ Constructed

NextRender ==
    \/ InitStart
    \/ InitFinish
    \/ SetLevel
    \/ HandleLowPerformance
    \/ HandleVREnter
    \/ HandleGlobalError

SpecRender == InitRender /\ [][NextRender]_vars

\* --------------------------------------------------------------- lifecycle
\* The scene dispatches 'performance-low': every listener that an init()
\* added runs handleLowPerformance, one after the other; an exception in one
\* does not keep the scene from calling the next.  With sceneListeners = 2,
\* two or more, the level is lowered twice, which is as low as it gets.
PerformanceLowEvent ==
    \E k1 \in 0..components, k2 \in 0..components, th \in Throwers :
        LET cur == currentPerformanceLevel
            first == IF cur # "low"
                     THEN setPerformanceLevel(cur, lowerLevel(cur), components, k1, th)
                     ELSE NoCall(cur)
            second == IF first.level # "low"
                      THEN setPerformanceLevel(first.level, lowerLevel(first.level),
                                               components, k2, th)
                      ELSE NoCall(first.level)
            eff == IF sceneListeners = 1 THEN first ELSE second
        IN
        /\ sceneListeners > 0
        /\ currentPerformanceLevel' = eff.level
        /\ timers' = Disturb(timers, TRUE, eff.level # cur)
        /\ last' = Record("lowEvent", IF sceneListeners = 1 THEN "once" ELSE "again",
                          eff, NoTimer)
        /\ UNCHANGED <<environment, lifecycle, device, listeners, sceneListeners, isInitialized,
                       initsAwaiting, components>>

\* The calls of init(), by the constructor, by start() and by a caller, also
\* while an earlier one awaits, and the events of the scene.
InitLifecycle ==
    /\ performanceTarget = "auto"
    /\ device \in SampleDevices
    /\ devicePixelRatio = 200
    /\ sceneRenderer = TRUE
    /\ collaborators = 1
    /\ Constructed

NextLifecycle ==
    \/ InitStart
    \/ InitReentered
    \/ InitFinish
    \/ InitAbort
    \/ PerformanceLowEvent
    \/ HandleVREnter

SpecLifecycle == InitLifecycle /\ [][NextLifecycle]_vars

\* --------------------------------------------------- start, stop, destroy
\* start() from its test of isStarted on.  It is reached once init() has
\* returned: start() awaits init() when isInitialized is false, and an
\* init() that throws ends start() there.  start() is called on each
\* component before the await.
StartBegin ==
    /\ isInitialized
    /\ ~isStarted => startsAwaiting < MaxStarts
    /\ IF isStarted
       THEN UNCHANGED <<startsAwaiting, componentStarts>>
       ELSE /\ startsAwaiting' = startsAwaiting + 1
            /\ componentStarts' = Min(componentStarts + 1, 2)
    /\ last' = Record("start", IF isStarted THEN "already" ELSE "none",
                      NoCall(currentPerformanceLevel), NoTimer)
    /\ UNCHANGED <<environment, isStarted, stopsAwaiting, startedEvents, isDestroyed,
                   device, listeners, sceneListeners, currentPerformanceLevel,
                   isInitialized, initsAwaiting, components, timers>>

\* start() after Promise.all: isStarted = true and emit('started').
StartFinish ==
    /\ startsAwaiting > 0
    /\ startsAwaiting' = startsAwaiting - 1
    /\ isStarted' = TRUE
    /\ startedEvents' = Min(startedEvents + 1, 2)
    /\ last' = Record("started", "none", NoCall(currentPerformanceLevel), NoTimer)
    /\ UNCHANGED <<environment, stopsAwaiting, componentStarts, isDestroyed,
                   device, listeners, sceneListeners, currentPerformanceLevel,
                   isInitialized, initsAwaiting, components, timers>>

\* stop() up to its await: nothing when isStarted is false.
StopBegin ==
    /\ stopsAwaiting < MaxStops
    /\ stopsAwaiting' = IF isStarted THEN stopsAwaiting + 1 ELSE stopsAwaiting
    /\ last' = Record("stop", IF isStarted THEN "none" ELSE "idle",
                      NoCall(currentPerformanceLevel), NoTimer)
    /\ UNCHANGED <<environment, isStarted, startsAwaiting, componentStarts,
                   startedEvents, isDestroyed, device, listeners, sceneListeners,
                   currentPerformanceLevel, isInitialized, initsAwaiting,
                   components, timers>>

\* stop() after Promise.all: isStarted = false and emit('stopped').
StopFinish ==
    /\ stopsAwaiting > 0
    /\ stopsAwaiting' = stopsAwaiting - 1
    /\ isStarted' = FALSE
    /\ componentStarts' = 0
    /\ startedEvents' = 0
    /\ last' = Record("stopped", "none", NoCall(currentPerformanceLevel), NoTimer)
    /\ UNCHANGED <<environment, startsAwaiting, isDestroyed, device, listeners,
                   sceneListeners, currentPerformanceLevel, isInitialized,
                   initsAwaiting, components, timers>>

\* destroy(): stop() up to its await, destroy() on each component, and
\* this.listeners.clear().  The timers, the listeners on the scene and on the
\* window, and this.components stay as they are.
Destroy ==
    /\ ~isDestroyed
    /\ isStarted => stopsAwaiting < MaxStops
    /\ stopsAwaiting' = IF isStarted THEN stopsAwaiting + 1 ELSE stopsAwaiting
    /\ listeners' = <<>>
    /\ isDestroyed' = TRUE
    /\ last' = Record("destroy", "none", NoCall(currentPerformanceLevel), NoTimer)
    /\ UNCHANGED <<environment, isStarted, startsAwaiting, componentStarts,
                   startedEvents, device, sceneListeners, currentPerformanceLevel,
                   isInitialized, initsAwaiting, components, timers>>

\* A manager that is destroyed while callbacks of timers are pending.
InitDestroy ==
    /\ performanceTarget = "auto"
    /\ device \in SampleDevices
    /\ devicePixelRatio = 200
    /\ sceneRenderer = TRUE
    /\ collaborators = 1
    /\ Constructed

NextDestroy ==
    \/ InitStart
    \/ InitFinish
    \/ HandleGoodPerformance
    \/ FireUpgrade
    \/ HandleVoiceActivityStart
    \/ FireRevert
    \/ HandleLowPerformance
    \/ StartBegin
    \/ StartFinish
    \/ StopFinish
    \/ Destroy

SpecDestroy == InitDestroy /\ [][NextDestroy]_vars

\* Calls of start() and stop(), also while an earlier one awaits.
InitStartStop ==
    /\ performanceTarget = "auto"
    /\ device \in SampleDevices
    /\ devicePixelRatio = 200
    /\ sceneRenderer = TRUE
    /\ collaborators = 1
    /\ Constructed

NextStartStop ==
    \/ InitStart
    \/ InitFinish
    \/ InitAbort
    \/ StartBegin
    \/ StartFinish
    \/ StopBegin
    \/ StopFinish

SpecStartStop == InitStartStop /\ [][NextStartStop]_vars

\* -------------------------------------------------------------- re-entrancy
\* A collaborator (from setQualityLevel) or a listener (from its callback)
\* that calls setPerformanceLevel(level) while a round is under way; no
\* party does so in a call that is itself re-entrant.
NoReentry == [kind |-> "none", who |-> 0, level |-> "none"]

Reentries ==
    {NoReentry}
      \cup [kind : {"collaborator"}, who : 1..components, level : Levels]
      \cup [kind : {"listener"}, who : 1..Len(listeners), level : Levels]

\* forEach from the i-th of hi parties on: each is called with the level, a
\* step of the kind given, and the party re makes its call, whose trace is
\* inner, inside the call it receives.
RECURSIVE forEach(_, _, _, _, _, _, _)
forEach(kind, party, level, hi, re, inner, i) ==
    IF i > hi THEN <<>>
    ELSE <<[kind |-> kind, who |-> i, level |-> level]>>
           \o (IF re.kind = party /\ re.who = i THEN inner ELSE <<>>)
           \o forEach(kind, party, level, hi, re, inner, i + 1)

\* What setPerformanceLevel(level) does, in the order of the code: the
\* assignment, setQualityLevel(level) on each of n collaborators,
\* applyGlobalPerformanceSettings(level), and the callbacks of ls.  The
\* party re makes its call inside the call it receives.
RECURSIVE roundTrace(_, _, _, _)
roundTrace(level, n, ls, re) ==
    LET inner == IF re.kind = "none" THEN <<>>
                 ELSE roundTrace(re.level, n, ls, NoReentry)
    IN
    <<[kind |-> "assign", who |-> 0, level |-> level]>>
      \o forEach("quality", "collaborator", level, n, re, inner, 1)
      \o <<[kind |-> "settings", who |-> 0, level |-> level]>>
      \o forEach("heard", "listener", level, Len(ls), re, inner, 1)

\* The level of the last step of a kind and a party in a trace.
LastOf(trace, kind, who) ==
    LET at == {i \in 1..Len(trace) : trace[i].kind = kind /\ trace[i].who = who}
    IN trace[CHOOSE i \in at : \A j \in at : j <= i].level

\* setPerformanceLevel(level) with a party that re-enters: what it leaves.
setPerformanceLevelReentrant(level, n, re) ==
    LET trace == roundTrace(level, n, listeners, re) IN
    [level     |-> LastOf(trace, "assign", 0),
     notified  |-> n,
     applied   |-> TRUE,
     settings  |-> applyGlobalPerformanceSettings(LastOf(trace, "settings", 0)),
     emitted   |-> TRUE,
     delivered |-> listeners,
     caught    |-> {},
     threw     |-> FALSE,
     quality   |-> [i \in 1..n |-> LastOf(trace, "quality", i)],
     heard     |-> [j \in 1..Len(listeners) |-> LastOf(trace, "heard", j)]]

\* The public call setPerformanceLevel(level) during which a collaborator
\* or a listener may call setPerformanceLevel again.
SetLevelReentrant ==
    \E level \in Levels, re \in Reentries :
        LET eff == setPerformanceLevelReentrant(level, components, re) IN
        /\ currentPerformanceLevel' = eff.level
        /\ timers' = Disturb(timers, FALSE,
                             level # currentPerformanceLevel
                               \/ eff.level # currentPerformanceLevel)
        /\ last' = Record("setLevelReentrant", level, eff, NoTimer)
        /\ UNCHANGED <<environment, lifecycle, device, listeners, sceneListeners, isInitialized,
                       initsAwaiting, components>>

\* Rounds of notification in which a party may re-enter, over every number
\* of collaborators and with listeners of performanceLevelChanged.
InitReentrant ==
    /\ performanceTarget = "auto"
    /\ device \in SampleDevices
    /\ devicePixelRatio = 200
    /\ sceneRenderer = TRUE
    /\ collaborators \in 0..MaxCollaborators
    /\ Constructed

NextReentrant ==
    \/ InitStart
    \/ InitFinish
    \/ On
    \/ SetLevelReentrant

SpecReentrant == InitReentrant /\ [][NextReentrant]_vars

\* ================================================================== claims
\* C1: when handleLowPerformance is called between handleGoodPerformance and
\* the end of its cooldown, the upgrade is cancelled: the callback that runs
\* when the cooldown elapses does not step the level up.
C1_LowReportCancelsUpgrade ==
    (last.op = "upgrade" /\ last.timer.disturbed)
        => currentPerformanceLevel = last.before

\* C2: when the level was changed by something other than the boost before
\* the boost's duration elapsed, the reversion is skipped: the level stays
\* what that later change made it and is not overwritten with the recorded
\* original level.
C2_RevertSkippedAfterChange ==
    (last.op = "revert" /\ last.timer.disturbed)
        => currentPerformanceLevel = last.before

\* C3: setPerformanceLevel(L) with L already the current level performs no
\* notification round: no setQualityLevel call, no settings applied and no
\* performanceLevelChanged event.
C3_SetLevelIdempotent ==
    (last.op = "setLevel" /\ last.arg = last.before)
        => (last.notified = 0 /\ ~last.applied /\ ~last.emitted)

\* C4: setPerformanceLevel with a value that is none of low, medium, high
\* leaves the level as it was, notifies no collaborator, applies no settings
\* and emits no event.
C4_InvalidLevelRejected ==
    (last.op = "setLevel" /\ last.arg \notin {"low", "medium", "high"})
        => /\ currentPerformanceLevel = last.before
           /\ last.notified = 0
           /\ ~last.applied
           /\ ~last.emitted

\* C4's case: an invalid value is passed while collaborators are registered
\* and the level is medium.
C4_Witness ==
    /\ last.op = "setLevel"
    /\ last.arg = InvalidLevel
    /\ components > 0
    /\ currentPerformanceLevel = "medium"

\* C5: one handleLowPerformance steps the level down exactly one tier: high
\* becomes medium (never low), medium becomes low, and low stays low with no
\* notification.
C5_LowStepsOneTier ==
    last.op = "low"
        => /\ last.before = "high" => currentPerformanceLevel = "medium"
           /\ last.before = "medium" => currentPerformanceLevel = "low"
           /\ last.before = "low"
                => /\ currentPerformanceLevel = "low"
                   /\ last.notified = 0
                   /\ ~last.applied
                   /\ ~last.emitted

\* C5's case: a report at high has left the level at medium and the
\* collaborators were told.
C5_Witness ==
    /\ last.op = "low"
    /\ last.before = "high"
    /\ currentPerformanceLevel = "medium"
    /\ last.notified > 0

\* C6: handleGoodPerformance itself leaves the level as it is and leaves its
\* callback pending; when the callback runs with no handleLowPerformance call
\* since, the level goes up exactly one tier (low to medium, medium to high,
\* high stays high).
C6_UpgradeOneTierAfterCooldown ==
    /\ last.op = "good"
         => /\ currentPerformanceLevel = last.before
            /\ Len(timers) > 0
            /\ timers[Len(timers)] = last.timer
            /\ last.timer.delay = 5000
    /\ (last.op = "upgrade" /\ ~last.timer.disturbed)
         => currentPerformanceLevel =
                CASE last.before = "low" -> "medium"
                  [] last.before = "medium" -> "high"
                  [] OTHER -> "high"

\* C6's case: the cooldown elapsed undisturbed at low and the level is medium.
C6_Witness ==
    /\ last.op = "upgrade"
    /\ ~last.timer.disturbed
    /\ last.before = "low"
    /\ currentPerformanceLevel = "medium"

\* C7: at most one upgrade callback and at most one reversion callback are
\* pending at a time.
C7_AtMostOnePendingPerKind ==
    /\ Cardinality({i \in 1..Len(timers) : timers[i].kind = "upgrade"}) <= 1
    /\ Cardinality({i \in 1..Len(timers) : timers[i].kind = "revert"}) <= 1

\* C8: boostPerformanceTemporarily at a level L that is not high sets the
\* level to high at once and leaves a reversion to L pending; the reversion,
\* when no other change of the level came before it, sets the level to L; at
\* high the call changes nothing and schedules nothing.
C8_BoostThenRevert ==
    /\ (last.op \in {"boost", "voice"} /\ last.before # "high")
         => /\ currentPerformanceLevel = "high"
            /\ Len(timers) > 0
            /\ timers[Len(timers)] = last.timer
            /\ last.timer.kind = "revert"
            /\ last.timer.originalLevel = last.before
    /\ (last.op \in {"boost", "voice"} /\ last.before = "high")
         => /\ currentPerformanceLevel = "high"
            /\ last.timer = NoTimer
            /\ last.notified = 0
    /\ (last.op = "revert" /\ ~last.timer.disturbed)
         => currentPerformanceLevel = last.timer.originalLevel

\* C8 without the exception: the statement of C8 holds of every boost in
\* which no setQualityLevel throws (C15 is about the ones in which one does).
C8_BoostThenRevertUnlessThrown ==
    (last.op \in {"boost", "voice"} /\ last.threw) \/ C8_BoostThenRevert

\* C9: for every device with a graphics context the level detected is the one
\* the score gives: memory tier (1 below 4GB, 2 from 4GB, 3 from 8GB) + cpu
\* tier (1 below 4 cores, 2 from 4, 3 from 8) + gpu tier (1 or 2), high from
\* 7, low up to 4, medium between; it is always one of the three levels, high
\* for {8GB, 8 cores, high GPU} and low for {2GB, 2 cores, low GPU}.
C9_ClassifyDevice ==
    (last.op = "vrExit" \/ (last.op = "init" /\ performanceTarget = "auto"))
        => LET m == IF device.memory = 0 THEN 4 ELSE device.memory
               c == IF device.cores = 0 THEN 4 ELSE device.cores
               mt == IF m < 4 THEN 1 ELSE IF m < 8 THEN 2 ELSE 3
               ct == IF c < 4 THEN 1 ELSE IF c < 8 THEN 2 ELSE 3
               gt == IF device.gpu THEN 2 ELSE 1
               score == mt + ct + gt
           IN /\ currentPerformanceLevel \in {"low", "medium", "high"}
              /\ device.gl =>
                    /\ score >= 7 => currentPerformanceLevel = "high"
                    /\ score <= 4 => currentPerformanceLevel = "low"
                    /\ (score > 4 /\ score < 7) => currentPerformanceLevel = "medium"
              /\ (device.gl /\ device.memory = 8 /\ device.cores = 8 /\ device.gpu)
                    => currentPerformanceLevel = "high"
              /\ (device.gl /\ device.memory = 2 /\ device.cores = 2 /\ ~device.gpu)
                    => currentPerformanceLevel = "low"

\* C9's case: a device of score 3 + 2 + 2 = 7, on the boundary, was classified
\* high from another level.
C9_Witness ==
    /\ last.op = "vrExit"
    /\ device = [gl |-> TRUE, memory |-> 8, cores |-> 4, gpu |-> TRUE]
    /\ last.before = "medium"
    /\ currentPerformanceLevel = "high"

\* C10 as claimed: when init() has completed, the level is the classified
\* one under the target 'auto' and the caller's target otherwise.
C10_InitLevelIsClassifiedOrTarget ==
    last.op = "init"
        => currentPerformanceLevel =
              IF performanceTarget = "auto"
              THEN detectOptimalPerformanceLevel(device)
              ELSE performanceTarget

\* C10 as amended: when init() has completed, the level is the classified one
\* under the target 'auto', the target when it is one of low, medium, high,
\* and what it was before setupPerformanceAdaptation ran when the target is
\* any other value.
C10_InitLevelUnlessInvalidTarget ==
    last.op = "init"
        => /\ performanceTarget = "auto"
                => currentPerformanceLevel = detectOptimalPerformanceLevel(device)
           /\ performanceTarget \in {"low", "medium", "high"}
                => currentPerformanceLevel = performanceTarget
           /\ performanceTarget \notin {"auto", "low", "medium", "high"}
                => currentPerformanceLevel = last.before

\* C10's case: init() has completed under a fixed target on a device that
\* classifies otherwise.
C10_Witness ==
    /\ last.op = "init"
    /\ performanceTarget = "low"
    /\ detectOptimalPerformanceLevel(device) = "high"
    /\ last.before = "high"
    /\ currentPerformanceLevel = "low"
    /\ isInitialized

\* C11: when no graphics context is available, classification gives low: the
\* level is low after handleVRExit and after the setupPerformanceAdaptation
\* of an init() under the target 'auto' (in last.arg the level it asked
\* for), and it is one of the three levels; no exception comes from the
\* probe, so an init() in which no collaborator throws completes.
C11_NoContextDegradesToLow ==
    /\ (~device.gl /\ last.op = "vrExit") => currentPerformanceLevel = "low"
    /\ (~device.gl /\ performanceTarget = "auto"
            /\ last.op \in {"init", "initError"} /\ last.arg # "none")
         => /\ currentPerformanceLevel = "low"
            /\ last.arg = "low"
            /\ last.op = "initError" => last.notified > 0

\* C11's case: init() has completed under 'auto' on a device that has no
\* graphics context and would score high.
C11_Witness ==
    /\ last.op = "init"
    /\ performanceTarget = "auto"
    /\ device = [gl |-> FALSE, memory |-> 8, cores |-> 8, gpu |-> TRUE]
    /\ isInitialized
    /\ currentPerformanceLevel = "low"

\* C12: after handleVREnter the level is high whatever it was, and every
\* collaborator has been told: setQualityLevel('high') was called on each of
\* the components that has it.
C12_VREnterForcesHigh ==
    last.op = "vrEnter"
        => /\ currentPerformanceLevel = "high"
           /\ last.notified = components

\* C12 without the exception: the statement of C12 holds of every
\* handleVREnter in which no setQualityLevel throws.
C12_VREnterForcesHighUnlessThrown ==
    (last.op = "vrEnter" /\ last.threw) \/ C12_VREnterForcesHigh

\* C13: after handleVRExit the level is the classification of the device
\* profile taken at construction, whatever the level was before and
\* whatever the device has come to answer since.
C13_VRExitClassifiesCachedProfile ==
    last.op = "vrExit"
        => currentPerformanceLevel = detectOptimalPerformanceLevel(profile)

\* C13 as the code has it: after handleVRExit the level is the
\* classification of what the device answers at that call, whatever the
\* level was before.
C13_VRExitClassifiesCurrentProbe ==
    last.op = "vrExit"
        => currentPerformanceLevel = detectOptimalPerformanceLevel(device)

\* C14: a handler that has changed the level has called setQualityLevel on
\* every collaborator, in the order of registration, and has then emitted
\* performanceLevelChanged to every listener, in the order of registration,
\* before it returned.
C14_ChangeNotifiesAllThenEmits ==
    currentPerformanceLevel # last.before
        => /\ last.notified = components
           /\ last.emitted
           /\ last.delivered = listeners

\* C14 without the exception: the statement of C14 holds of every handler
\* in which no setQualityLevel throws.
C14_ChangeNotifiesAllUnlessThrown ==
    last.threw \/ C14_ChangeNotifiesAllThenEmits

\* C15: a setPerformanceLevel(level) with a valid level, whether or not a
\* collaborator's setQualityLevel throws in it, calls every collaborator,
\* applies the settings, emits performanceLevelChanged and leaves the
\* level at the one asked for.
C15_ThrowDoesNotAbortRound ==
    (last.op = "setLevel" /\ last.arg \in Levels)
        => /\ last.notified = components
           /\ last.applied
           /\ last.emitted
           /\ currentPerformanceLevel = last.arg

\* C15, the part the code keeps: the level is the one asked for, also when
\* a collaborator throws, since it is assigned before the collaborators are
\* called.
C15_LevelAssignedBeforeRound ==
    (last.op = "setLevel" /\ last.arg \in Levels)
        => currentPerformanceLevel = last.arg

\* C16: an emit, the public one or the one that ends setPerformanceLevel,
\* has called every listener registered with on(), once for each
\* registration and in the order of registration, also the ones registered
\* after a listener that threw, and no exception of a listener has left it.
C16_EmitOrderedAndIsolated ==
    last.emitted
        => /\ last.delivered = listeners
           /\ last.caught \subseteq {listeners[i] : i \in 1..Len(listeners)}
           /\ ~last.threw

C16_Witness ==
    /\ last.op = "emit"
    /\ listeners = <<"f", "g">>
    /\ last.caught = {"f"}
    /\ last.delivered = <<"f", "g">>

\* The operations the level is said to change by: setPerformanceLevel,
\* handleLowPerformance, the callback of handleGoodPerformance,
\* boostPerformanceTemporarily and its callback, handleVREnter and
\* handleVRExit; and init(), which sets the first level.
ListedOps ==
    {"setLevel", "low", "upgrade", "boost", "revert", "vrEnter", "vrExit",
     "init", "initError"}

\* C17 as stated: a handler that has changed the level is one of the listed
\* operations; the handlers of a global error, of window focus and blur, of
\* voice, chat and API events leave the level as it was.
C17_LevelChangesOnlyByListedOps ==
    currentPerformanceLevel # last.before => last.op \in ListedOps

\* C17 amended: a handler that has changed the level is one of the listed
\* operations, or handleVoiceActivityStart, which boosts, or
\* handleGlobalError, which has lowered high to medium and changes no other
\* level; the handlers of window focus and blur, of the end of voice
\* activity, of a voice error and of chat and API events leave the level as
\* it was.
C17_LevelChangesByListedOpsVoiceStartOrError ==
    /\ currentPerformanceLevel # last.before
        => last.op \in ListedOps \cup {"voice", "error"}
    /\ last.op = "error"
        => \/ last.before = "high" /\ currentPerformanceLevel = "medium"
           \/ last.before # "high" /\ currentPerformanceLevel = last.before
    /\ last.op = "voice" => currentPerformanceLevel = "high"

C17_Witness ==
    /\ last.op = "error"
    /\ last.before = "high"
    /\ currentPerformanceLevel = "medium"
    /\ isInitialized
    /\ ~last.threw

\* C18: in every reachable state, whatever calls, callbacks of timers and
\* rejected values came before, the level is one of low, medium and high.
C18_LevelAlwaysValid ==
    currentPerformanceLevel \in {"low", "medium", "high"}

\* C18's case: a value that is no level has just been rejected while a
\* callback is pending and the level had been lowered to low.
C18_Witness ==
    /\ last.op = "setLevel"
    /\ last.arg = InvalidLevel
    /\ Len(timers) > 0
    /\ currentPerformanceLevel = "low"

\* The cap of the pixel ratio the claim gives for a level, in hundredths.
ClaimedCap(level) == IF level = "high" THEN 200 ELSE 150

\* C19: the pixel ratio set on the renderer for a level is the smaller of
\* devicePixelRatio and the cap of the level, 2 for high and 1.5 for medium
\* and for low, for every devicePixelRatio.
C19_PixelRatioIsCappedDeviceRatio ==
    last.settings.called
        => last.settings.pixelRatio
             = Min(devicePixelRatio, ClaimedCap(currentPerformanceLevel))

\* C19 as the code has it: the smaller of devicePixelRatio and 2 for high,
\* the smaller of devicePixelRatio and 1.5 for medium, and 1 for low
\* whatever devicePixelRatio is.
C19_PixelRatioAsCoded ==
    last.settings.called
        => last.settings.pixelRatio
             = IF currentPerformanceLevel = "low" THEN 100
               ELSE Min(devicePixelRatio, ClaimedCap(currentPerformanceLevel))

\* C20: the initialization runs at most once: no init() runs while another
\* awaits, the listeners of the scene are registered once, and one
\* performance-low event makes exactly one handleLowPerformance step, from
\* high to medium, from medium to low.
C20_InitRunsAtMostOnce ==
    /\ initsAwaiting <= 1
    /\ sceneListeners <= 1
    /\ last.op = "lowEvent"
        => currentPerformanceLevel
             = IF last.before = "low" THEN "low" ELSE lowerLevel(last.before)

\* C20, the part the code keeps: once isInitialized is set and no init()
\* awaits, no init() begins, and an event that one listener hears makes one
\* step.
C20_GuardedOnceInitialized ==
    /\ (last.op = "initStart" /\ initsAwaiting = 1) => ~isInitialized
    /\ (last.op = "lowEvent" /\ last.arg = "once")
        => currentPerformanceLevel
             = IF last.before = "low" THEN "low" ELSE lowerLevel(last.before)

\* C21: after a setPerformanceLevel has returned without an exception, the
\* last level each collaborator got from setQualityLevel and the last level
\* each listener of performanceLevelChanged got is the current level, also
\* when a collaborator or a listener called setPerformanceLevel during the
\* round.
C21_LastDeliveredIsCurrent ==
    last.op = "setLevelReentrant"
        => /\ \A i \in 1..Len(last.quality) :
                last.quality[i] = currentPerformanceLevel
           /\ \A j \in 1..Len(last.heard) :
                last.heard[j] = currentPerformanceLevel

\* C21 without the re-entry: the statement of C21 holds of every round in
\* which no party calls setPerformanceLevel, and of every round in which
\* the party asks for the level of the round.
C21_LastDeliveredIsCurrentUnlessReentered ==
    (last.op = "setLevelReentrant" /\ currentPerformanceLevel = last.arg)
        => /\ \A i \in 1..Len(last.quality) :
                last.quality[i] = currentPerformanceLevel
           /\ \A j \in 1..Len(last.heard) :
                last.heard[j] = currentPerformanceLevel

\* C22: once destroy() has been called, the callback of an upgrade or of a
\* boost reversion that was pending calls setQualityLevel on no collaborator
\* and leaves the level as it was when it runs.
C22_DestroyedManagerIsInert ==
    (isDestroyed /\ last.op \in {"upgrade", "revert"})
        => /\ last.notified = 0
           /\ currentPerformanceLevel = last.before

\* C23: between two stops start() is called on each component at most once
\* and 'started' is emitted at most once, also when start() is called while
\* an earlier start() awaits; and isStarted is true only when isInitialized
\* is.
C23_StartsOnceBetweenStops ==
    /\ componentStarts <= 1
    /\ startedEvents <= 1
    /\ isStarted => isInitialized

\* C23, the part the code keeps: isStarted is true only when isInitialized
\* is, and a start() that finds isStarted true starts no component.
C23_StartedOnlyWhenInitialized ==
    /\ isStarted => isInitialized
    /\ (last.op = "start" /\ last.arg = "already") => isStarted

\* off(event, cb) has removed the first registration of cb and nothing
\* else: the callbacks before it and after it are the ones there were, in
\* their order; without a registration of cb nothing has changed.
OffRemovedFirstOnly ==
    last.op = "off"
        => \/ /\ \A i \in 1..Len(last.registered) : last.registered[i] # last.arg
              /\ listeners = last.registered
           \/ \E i \in 1..Len(last.registered) :
                /\ last.registered[i] = last.arg
                /\ \A j \in 1..(i - 1) : last.registered[j] # last.arg
                /\ listeners = SubSeq(last.registered, 1, i - 1)
                                 \o SubSeq(last.registered, i + 1, Len(last.registered))

\* C24: an emit has called every callback that was registered when it
\* began exactly once, in the order of registration, also when a callback
\* called off() for itself or for another callback during the dispatch; and
\* off() removes the first registration of its callback only.
C24_EmitCallsAllRegisteredDespiteOff ==
    /\ last.op = "emitWithOff" => last.delivered = last.registered
    /\ OffRemovedFirstOnly

\* C24, the part the code keeps: off() removes the first registration of
\* its callback and leaves the others in their order, and a dispatch in
\* which no callback removes one still registered calls every callback.
C24_OffRemovesFirstOnly ==
    /\ OffRemovedFirstOnly
    /\ (last.op = "emitWithOff" /\ listeners = last.registered)
         => last.delivered = last.registered
====
